---- MODULE Spec2Model ----
(***************************************************************************)
(* Model of the shrimpy path-tracing viewer: the geometric primitives, the *)
(* BVH builder (tracer_struct.rs), the fixed-capacity scene held by Gfx    *)
(* (graphics.rs), the mesh loader (file_load.rs) and the event handlers of *)
(* the application (main.rs).                                              *)
(*                                                                         *)
(* An f32 is held as the integer that orders as the value does: the bit    *)
(* pattern of its magnitude (exponent field * 2^23 + fraction field),      *)
(* negated for a negative value.  1.0 is 1065353216, INFINITY 2139095040,  *)
(* and NaN is the one pattern 2143289344; the two zeros are both 0.  The   *)
(* f32_* operators compute IEEE-754 binary32 results, rounded to nearest   *)
(* with ties to even, subnormals and overflow to infinity included.        *)
(*                                                                         *)
(* Rust indices are 0-based and the sequences of this module 1-based: the  *)
(* element at Rust index i is s[i + 1]; stored indices (child1, child2,    *)
(* triangle_ids, tri_indices) keep their 0-based Rust values.              *)
(***************************************************************************)
EXTENDS Integers, Sequences, FiniteSets, TLC

VARIABLES
    materials,       \* Gfx.scene.materials : [Material; 64]
    spheres,         \* Gfx.scene.spheres : [Sphere; 64]
    triangles,       \* Gfx.scene.triangles : [Triangle; 256]
    sphere_count,    \* Gfx.scene.sphere_count
    triangle_count,  \* Gfx.scene.triangle_count
    bvh,             \* Gfx.scene.bvh : [BVHNode; 96]
    material_count,  \* Gfx.material_count
    frame_count,     \* Gfx.uniforms.frame_count
    camera,          \* Gfx.uniforms.camera
    tri_indices,     \* local of the last scene_build call, as bvh_build left it
    tmp_bvh,         \* local of the last scene_build call: the node array built
    ret,             \* value returned by the last scene_add_material call
    gfx,             \* Shrimpy.gfx is Some
    button_state,    \* Shrimpy.button_state : [bool; 4]
    failure,         \* "" while running, else the panic that ended the program
    appends,         \* number of scene_add_triangles calls made so far
    moves,           \* number of events that have moved the camera so far
    dirty,           \* the camera or the scene changed since the last render_frame
    save_divisor,    \* frame_count as the last save_render read it, -1 before any
    mesh_file,       \* the mesh file handed to load_mesh_from
    loaded           \* what the load_mesh_from call came to

vars == <<materials, spheres, triangles, sphere_count, triangle_count, bvh,
          material_count, frame_count, camera, tri_indices, tmp_bvh, ret,
          gfx, button_state, failure, appends, moves, dirty, save_divisor, mesh_file,
          loaded>>

(***************************************************************************)
(* Bounds of the model.                                                    *)
(***************************************************************************)
MaxAppends == 3
MaxFrames == 2
MaxCameraSteps == 1
MaxLines == 3

(***************************************************************************)
(* Program constants.                                                      *)
(***************************************************************************)
TRIANGLES_PER_LEAF == 7
MATERIAL_CAPACITY == 64
SPHERE_CAPACITY == 64
TRIANGLE_CAPACITY == 256
BVH_CAPACITY == 96
MAX_LEAF_ARG == 8
BUTTON_SLOTS == 4
DEGENERATE_EPS == 953267991
DEGENERATE_PAD == 1008981770

\* F applied to the value of x: x is evaluated once, where a LET would be
\* evaluated again at every use
With(x, F(_)) == CHOOSE r \in {F(v) : v \in {x}} : TRUE

(***************************************************************************)
(* f32: IEEE-754 binary32, round to nearest, ties to even.                 *)
(***************************************************************************)
TWO23 == 8388608
ONE == 1065353216
THREE == 1077936128
INFINITY == 2139095040
NEG_INFINITY == -INFINITY
NaN == 2143289344

POW2 ==
    <<1, 2, 4, 8, 16, 32, 64, 128, 256, 512, 1024, 2048, 4096, 8192, 16384,
      32768, 65536, 131072, 262144, 524288, 1048576, 2097152, 4194304,
      8388608, 16777216, 33554432, 67108864, 134217728, 268435456,
      536870912, 1073741824>>

Pow2(k) == POW2[k + 1]

\* number of bits of s, 0 <= s < 2^31, known to be from lo to hi
RECURSIVE BitLenBetween(_, _, _)
BitLenBetween(s, lo, hi) ==
    IF lo = hi THEN lo
    ELSE IF s >= Pow2((lo + hi) \div 2) THEN BitLenBetween(s, (lo + hi) \div 2 + 1, hi)
    ELSE BitLenBetween(s, lo, (lo + hi) \div 2)

\* number of bits of s, 0 <= s < 2^31
BitLen(s) ==
    IF s < Pow2(23) THEN BitLenBetween(s, 0, 23)
    ELSE IF s < Pow2(24) THEN 24
    ELSE IF s < Pow2(25) THEN 25
    ELSE IF s < Pow2(26) THEN 26
    ELSE IF s < Pow2(27) THEN 27
    ELSE IF s < Pow2(28) THEN 28
    ELSE IF s < Pow2(29) THEN 29
    ELSE IF s < Pow2(30) THEN 30
    ELSE 31

Abs(a) == IF a < 0 THEN -a ELSE a

f32_is_nan(a) == a = NaN

f32_is_infinite(a) == a = INFINITY \/ a = NEG_INFINITY

\* the biased exponent field of a finite pattern m >= 0, 1 for a subnormal
f32_exponent(m) == IF m < TWO23 THEN 1 ELSE m \div TWO23

\* the 24-bit significand of a finite pattern m >= 0, hidden bit included:
\* the value of m is f32_significand(m) * 2^(f32_exponent(m) - 150)
f32_significand(m) == IF m < TWO23 THEN m ELSE TWO23 + (m % TWO23)

\* a magnitude past the greatest finite one is infinite
f32_saturate(m) == IF m >= INFINITY THEN INFINITY ELSE m

\* the pattern nearest to s * 2^(e - 150), ties to even; sticky says that
\* the exact value lies strictly between s and s + 1, and then s has more
\* than 25 bits
f32_round(s, e, sticky) ==
    IF s = 0 THEN 0
    ELSE
    LET n == BitLen(s)
        sh == IF n - 24 > 1 - e THEN n - 24 ELSE 1 - e
    IN IF sh > 31 THEN 0
       ELSE IF sh = 31
       THEN IF s > Pow2(30) \/ (s = Pow2(30) /\ sticky) THEN 1 ELSE 0
       ELSE IF sh > 0
       THEN LET q == s \div Pow2(sh)
                rem == s % Pow2(sh)
                half == Pow2(sh - 1)
                up == rem > half \/ (rem = half /\ (sticky \/ q % 2 = 1))
            IN IF e + sh - 1 >= 255 THEN INFINITY
               ELSE f32_saturate((e + sh - 1) * TWO23 + q + (IF up THEN 1 ELSE 0))
       ELSE LET sl == IF 24 - n < e - 1 THEN 24 - n ELSE e - 1
            IN IF e - sl - 1 >= 255 THEN INFINITY
               ELSE f32_saturate((e - sl - 1) * TWO23 + s * Pow2(sl))

\* big + small of two finite values, Abs(big) >= Abs(small): the significands
\* are aligned with three more bits, and what small loses below them is sticky
f32_add_ordered(big, small) ==
    LET e == f32_exponent(Abs(big))
        d == e - f32_exponent(Abs(small))
        ms == f32_significand(Abs(small))
        sticky == d > 3 /\ (IF d > 33 THEN ms # 0 ELSE ms % Pow2(d - 3) # 0)
        mb8 == f32_significand(Abs(big)) * 8
        ms8 == IF d <= 3 THEN ms * Pow2(3 - d)
               ELSE IF d > 33 THEN 0 ELSE ms \div Pow2(d - 3)
        s == IF (big < 0) = (small < 0) THEN mb8 + ms8
             ELSE mb8 - ms8 - (IF sticky THEN 1 ELSE 0)
    IN (IF big < 0 THEN -1 ELSE 1) * f32_round(s, e - 3, sticky)

\* a + b of two finite values
f32_add_finite(a, b) ==
    f32_add_ordered(IF Abs(a) >= Abs(b) THEN a ELSE b, IF Abs(a) >= Abs(b) THEN b ELSE a)

f32_add(a, b) ==
    IF Abs(a) < INFINITY /\ Abs(b) < INFINITY THEN f32_add_finite(a, b)
    ELSE IF f32_is_nan(a) \/ f32_is_nan(b) THEN NaN
    ELSE IF (a = INFINITY /\ b = NEG_INFINITY) \/ (a = NEG_INFINITY /\ b = INFINITY)
         THEN NaN
    ELSE IF a = INFINITY \/ b = INFINITY THEN INFINITY
    ELSE NEG_INFINITY

f32_neg(a) == IF f32_is_nan(a) THEN NaN ELSE -a

f32_sub(a, b) == f32_add(a, f32_neg(b))

f32_abs(a) == IF f32_is_nan(a) THEN NaN ELSE Abs(a)

\* bits more bits of a quotient: d.q is the quotient so far and d.r the
\* remainder, d.r < den < 2^24, and bits <= 7
DivStep(d, den, bits) ==
    [q |-> d.q * Pow2(bits) + (d.r * Pow2(bits)) \div den, r |-> (d.r * Pow2(bits)) % den]

\* a / b of two finite values, a and b not zero: the significands are brought
\* to 24 bits, and 27 bits of their quotient are taken after its integer bit
f32_div_finite(a, b) ==
    LET na == 24 - BitLen(f32_significand(Abs(a)))
        nb == 24 - BitLen(f32_significand(Abs(b)))
        ma == f32_significand(Abs(a)) * Pow2(na)
        mb == f32_significand(Abs(b)) * Pow2(nb)
        e == (f32_exponent(Abs(a)) - na) - (f32_exponent(Abs(b)) - nb)
        d == DivStep(DivStep(DivStep(DivStep([q |-> ma \div mb, r |-> ma % mb],
                                             mb, 7), mb, 7), mb, 7), mb, 6)
    IN (IF (a < 0) = (b < 0) THEN 1 ELSE -1) * f32_round(d.q, e + 123, d.r # 0)

f32_div(a, b) ==
    IF f32_is_nan(a) \/ f32_is_nan(b) THEN NaN
    ELSE IF f32_is_infinite(a)
    THEN IF f32_is_infinite(b) THEN NaN
         ELSE IF (a < 0) = (b < 0) THEN INFINITY ELSE NEG_INFINITY
    ELSE IF f32_is_infinite(b) THEN 0
    ELSE IF b = 0
    THEN IF a = 0 THEN NaN ELSE IF a < 0 THEN NEG_INFINITY ELSE INFINITY
    ELSE IF a = 0 THEN 0
    ELSE f32_div_finite(a, b)

\* a / 3.0
f32_div3(a) == f32_div(a, THREE)

\* a * 5.0
f32_mul5(a) ==
    IF f32_is_nan(a) \/ f32_is_infinite(a) THEN a
    ELSE LET m == f32_round(f32_significand(Abs(a)) * 5, f32_exponent(Abs(a)), FALSE)
         IN IF a < 0 THEN -m ELSE m

\* a * b of two finite values, neither zero: the significands are brought to
\* 24 bits and multiplied in halves of 12 bits; hi and lo are the two halves
\* of 24 bits of the product, of which the first 30 bits are rounded
f32_mul_finite(a, b) ==
    LET na == 24 - BitLen(f32_significand(Abs(a)))
        nb == 24 - BitLen(f32_significand(Abs(b)))
        ma == f32_significand(Abs(a)) * Pow2(na)
        mb == f32_significand(Abs(b)) * Pow2(nb)
        e == (f32_exponent(Abs(a)) - na) + (f32_exponent(Abs(b)) - nb)
        mid == (ma \div 4096) * (mb % 4096) + (ma % 4096) * (mb \div 4096)
        low == (ma % 4096) * (mb % 4096) + (mid % 4096) * 4096
        lo == low % Pow2(24)
        hi == (ma \div 4096) * (mb \div 4096) + mid \div 4096 + low \div Pow2(24)
    IN (IF (a < 0) = (b < 0) THEN 1 ELSE -1)
           * f32_round(hi * 64 + lo \div Pow2(18), e - 132, lo % Pow2(18) # 0)

f32_mul(a, b) ==
    IF Abs(a) < INFINITY /\ Abs(b) < INFINITY
    THEN IF a = 0 \/ b = 0 THEN 0 ELSE f32_mul_finite(a, b)
    ELSE IF f32_is_nan(a) \/ f32_is_nan(b) \/ a = 0 \/ b = 0 THEN NaN
    ELSE IF (a < 0) = (b < 0) THEN INFINITY ELSE NEG_INFINITY

\* steps more bits of a square root, most significant first: root is the
\* root so far and rem what is left of the bits of m taken so far, two for
\* each bit of the root; past the last bit of m the bits are 0
RECURSIVE SqrtStep(_, _, _, _)
SqrtStep(root, rem, m, steps) ==
    IF steps = 0 THEN [root |-> root, rem |-> rem]
    ELSE LET pair == IF steps > 14 THEN (m \div Pow2(2 * (steps - 15))) % 4 ELSE 0
             left == 4 * rem + pair
         IN IF left >= 4 * root + 1
            THEN SqrtStep(2 * root + 1, left - (4 * root + 1), m, steps - 1)
            ELSE SqrtStep(2 * root, left, m, steps - 1)

\* f32::sqrt of a finite value above zero: the significand is brought to 24
\* bits, or 25 to make the exponent even, and its root is taken to 14 bits
\* past the point
f32_sqrt_finite(a) ==
    LET na == 24 - BitLen(f32_significand(a))
        odd == (f32_exponent(a) - na) % 2 = 1
        m == f32_significand(a) * Pow2(na) * (IF odd THEN 2 ELSE 1)
        e == f32_exponent(a) - na - (IF odd THEN 1 ELSE 0)
        d == SqrtStep(0, 0, m, 27)
    IN f32_round(d.root, (e - 150) \div 2 + 136, d.rem # 0)

f32_sqrt(a) ==
    IF f32_is_nan(a) \/ a < 0 THEN NaN
    ELSE IF a = 0 \/ a = INFINITY THEN a
    ELSE f32_sqrt_finite(a)

(***************************************************************************)
(* Decimal to f32 (core::num::dec2flt): the conversion is correctly        *)
(* rounded, so it is computed on exact integers.  A natural number of any  *)
(* size is the sequence of its digits in base LIMB, the lowest first.      *)
(***************************************************************************)
LIMB == 32768
LIMB_BITS == 15

\* x * c + carry, for 0 <= c < 2^15 and 0 <= carry < 2^15
RECURSIVE BigMulAdd(_, _, _)
BigMulAdd(x, c, carry) ==
    IF x = <<>>
    THEN IF carry = 0 THEN <<>> ELSE <<carry>>
    ELSE <<(Head(x) * c + carry) % LIMB>>
             \o BigMulAdd(Tail(x), c, (Head(x) * c + carry) \div LIMB)

BigLimb(x, i) == IF i <= Len(x) THEN x[i] ELSE 0

BigIsZero(x) == \A i \in 1..Len(x) : x[i] = 0

\* number of bits of x
BigBitLen(x) ==
    LET used == {i \in 1..Len(x) : x[i] # 0}
    IN IF used = {} THEN 0
       ELSE LET h == CHOOSE i \in used : \A j \in used : j <= i
            IN LIMB_BITS * (h - 1) + BitLen(x[h])

\* x * 2^t
BigShl(x, t) ==
    BigMulAdd([i \in 1..(t \div LIMB_BITS) |-> 0] \o x, Pow2(t % LIMB_BITS), 0)

\* a >= b
BigGe(a, b) ==
    LET n == IF Len(a) > Len(b) THEN Len(a) ELSE Len(b)
        differ == {i \in 1..n : BigLimb(a, i) # BigLimb(b, i)}
    IN \/ differ = {}
       \/ LET h == CHOOSE i \in differ : \A j \in differ : j <= i
          IN BigLimb(a, h) > BigLimb(b, h)

\* a - b - borrow, for a >= b + borrow
RECURSIVE BigSub(_, _, _)
BigSub(a, b, borrow) ==
    IF a = <<>> THEN <<>>
    ELSE LET v == Head(a) - BigLimb(b, 1) - borrow
         IN <<v % LIMB>> \o
            BigSub(Tail(a), IF b = <<>> THEN <<>> ELSE Tail(b), IF v < 0 THEN 1 ELSE 0)

\* the number a natural number n < 2^31 of the model is
BigFromNat(n) == <<n % LIMB, (n \div LIMB) % LIMB, n \div (LIMB * LIMB)>>

\* x * 10^p
RECURSIVE BigTimesPow10(_, _)
BigTimesPow10(x, p) ==
    IF p = 0 THEN x
    ELSE IF p >= 4 THEN BigTimesPow10(BigMulAdd(x, 10000, 0), p - 4)
    ELSE BigTimesPow10(BigMulAdd(x, 10, 0), p - 1)

\* the first steps bits of r / m, for r < 2 * m: q is the quotient so far;
\* at the end r is the remainder
RECURSIVE BigDivide(_, _, _, _)
BigDivide(r, m, q, steps) ==
    IF BigGe(r, m)
    THEN IF steps = 1 THEN [q |-> 2 * q + 1, r |-> BigSub(r, m, 0)]
         ELSE BigDivide(BigMulAdd(BigSub(r, m, 0), 2, 0), m, 2 * q + 1, steps - 1)
    ELSE IF steps = 1 THEN [q |-> 2 * q, r |-> r]
         ELSE BigDivide(BigMulAdd(r, 2, 0), m, 2 * q, steps - 1)

\* the pattern nearest to num / den, both positive: the two are brought to
\* the same bit length and 28 bits of the quotient are taken
f32_from_ratio(num, den) ==
    LET t == BigBitLen(num) - BigBitLen(den)
    IN With(BigDivide(IF t < 0 THEN BigShl(num, -t) ELSE num,
                      IF t > 0 THEN BigShl(den, t) ELSE den, 0, 28), LAMBDA d :
            f32_round(d.q, 123 + t, ~BigIsZero(d.r)))

\* a < b, false when either is NaN
f32_lt(a, b) == ~f32_is_nan(a) /\ ~f32_is_nan(b) /\ a < b

\* a > b, false when either is NaN
f32_gt(a, b) == f32_lt(b, a)

\* f32::min: the other operand when one is NaN
f32_min(a, b) ==
    IF f32_is_nan(a) THEN b
    ELSE IF f32_is_nan(b) THEN a
    ELSE IF a < b THEN a ELSE b

\* f32::max: the other operand when one is NaN
f32_max(a, b) ==
    IF f32_is_nan(a) THEN b
    ELSE IF f32_is_nan(b) THEN a
    ELSE IF a > b THEN a ELSE b

\* a.partial_cmp(&b): "None" when either is NaN
f32_partial_cmp(a, b) ==
    IF f32_is_nan(a) \/ f32_is_nan(b) THEN "None"
    ELSE IF a < b THEN "Less"
    ELSE IF a > b THEN "Greater" ELSE "Equal"

(***************************************************************************)
(* Vec3 (crate::vec3): componentwise operations on <<x, y, z>>.            *)
(***************************************************************************)
Vec3_new(x, y, z) == <<x, y, z>>
Vec3_all(a) == <<a, a, a>>
Vec3_zero == Vec3_all(0)
Vec3_min(a, b) == [i \in 1..3 |-> f32_min(a[i], b[i])]
Vec3_max(a, b) == [i \in 1..3 |-> f32_max(a[i], b[i])]
Vec3_add(a, b) == [i \in 1..3 |-> f32_add(a[i], b[i])]
Vec3_sub(a, b) == [i \in 1..3 |-> f32_sub(a[i], b[i])]
Vec3_div3(a) == [i \in 1..3 |-> f32_div3(a[i])]
Vec3_div(a, s) == [i \in 1..3 |-> f32_div(a[i], s)]
Vec3_mul(a, s) == [i \in 1..3 |-> f32_mul(a[i], s)]
Vec3_neg(a) == [i \in 1..3 |-> f32_neg(a[i])]
\* component i of the product is a[j] * b[k] - a[k] * b[j], for j the
\* component after i and k the one after j, x coming after z
Vec3_cross(a, b) ==
    [i \in 1..3 |-> f32_sub(f32_mul(a[(i % 3) + 1], b[((i + 1) % 3) + 1]),
                            f32_mul(a[((i + 1) % 3) + 1], b[(i % 3) + 1]))]
\* x + y + z of a vector
Vec3_sum(a) == f32_add(f32_add(a[1], a[2]), a[3])
Vec3_dot(a, b) == Vec3_sum([i \in 1..3 |-> f32_mul(a[i], b[i])])
Vec3_length(a) == f32_sqrt(Vec3_dot(a, a))
Vec3_normalized(a) == Vec3_div(a, Vec3_length(a))

(***************************************************************************)
(* Material, Sphere, Triangle                                              *)
(***************************************************************************)
Material_default ==
    [color |-> Vec3_all(ONE), roughness_or_ior |-> ONE,
     emission_strength |-> 0, volume_density |-> ONE]

Sphere_default == [center |-> Vec3_zero, radius |-> ONE, material_id |-> 0]

Triangle_new(v0, v1, v2, material_id) ==
    [vertex_0 |-> v0, vertex_1 |-> v1, vertex_2 |-> v2, material_id |-> material_id]

Triangle_default == Triangle_new(Vec3_zero, Vec3_zero, Vec3_zero, 0)

\* Triangle::bounding_box, as a bug would have it: vertex_2 is left out
bounding_box_two_vertices(t) ==
    <<[i \in 1..3 |-> f32_min(t.vertex_0[i], t.vertex_1[i])],
      [i \in 1..3 |-> f32_max(t.vertex_0[i], t.vertex_1[i])]>>

\* Triangle::bounding_box: <<bbox_min, bbox_max>>
bounding_box(t) ==
    <<[i \in 1..3 |-> f32_min(f32_min(t.vertex_0[i], t.vertex_1[i]), t.vertex_2[i])],
      [i \in 1..3 |-> f32_max(f32_max(t.vertex_0[i], t.vertex_1[i]), t.vertex_2[i])]>>

\* Triangle::center
center(t) == Vec3_div3(Vec3_add(Vec3_add(t.vertex_0, t.vertex_1), t.vertex_2))

(***************************************************************************)
(* BVHNode                                                                 *)
(***************************************************************************)
ZeroIds == [i \in 1..TRIANGLES_PER_LEAF |-> 0]

BVHNode_default ==
    [bbox_min |-> Vec3_zero, child1 |-> 0, bbox_max |-> Vec3_zero, child2 |-> 0,
     triangle_count |-> 0, triangle_ids |-> ZeroIds]

\* lines 243-250: the union of the boxes of the triangles tri_indices[lo..hi]
\* names, starting from (INFINITY, NEG_INFINITY).  The code folds from the
\* left; f32::min and f32::max are associative, so the halves are joined here.
RECURSIVE UnionBBox(_, _, _, _)
UnionBBox(tris, tri_indices_, lo, hi) ==
    IF lo > hi THEN <<Vec3_all(INFINITY), Vec3_all(NEG_INFINITY)>>
    ELSE IF lo = hi
    THEN LET tb == bounding_box(tris[tri_indices_[lo] + 1])
         IN <<Vec3_min(Vec3_all(INFINITY), tb[1]), Vec3_max(Vec3_all(NEG_INFINITY), tb[2])>>
    ELSE With(UnionBBox(tris, tri_indices_, lo, (lo + hi) \div 2), LAMBDA a :
         With(UnionBBox(tris, tri_indices_, (lo + hi) \div 2 + 1, hi), LAMBDA b :
              <<Vec3_min(a[1], b[1]), Vec3_max(a[2], b[2])>>))

\* lines 252-257: an axis thinner than 1e-4 is widened by 0.01 on both sides
DegenerateGuard(box) ==
    LET thin == <<f32_lt(f32_abs(f32_sub(box[2][1], box[1][1])), DEGENERATE_EPS),
                  f32_lt(f32_abs(f32_sub(box[2][2], box[1][2])), DEGENERATE_EPS),
                  f32_lt(f32_abs(f32_sub(box[2][3], box[1][3])), DEGENERATE_EPS)>>
    IN <<[i \in 1..3 |-> IF thin[i] THEN f32_sub(box[1][i], DEGENERATE_PAD) ELSE box[1][i]],
         [i \in 1..3 |-> IF thin[i] THEN f32_add(box[2][i], DEGENERATE_PAD) ELSE box[2][i]]>>

\* lines 243-257
NodeBBox(tris, tri_indices_) ==
    With(UnionBBox(tris, tri_indices_, 1, Len(tri_indices_)), LAMBDA box :
         DegenerateGuard(box))

\* line 260, as a bug would have it: the limit is the argument the caller passes
IsLeafSubsetByArgument(tri_indices_, max_triangles_per_leaf) ==
    Len(tri_indices_) <= max_triangles_per_leaf

\* line 260: the leaf test (the max_triangles_per_leaf argument is not read)
IsLeafSubset(tri_indices_, max_triangles_per_leaf) ==
    Len(tri_indices_) <= TRIANGLES_PER_LEAF

\* lines 261-272, as a bug would have it: the copy loop stops one index early
LeafNodeDropsLast(box, tri_indices_) ==
    [bbox_min |-> box[1], child1 |-> 0, bbox_max |-> box[2], child2 |-> 0,
     triangle_count |-> Len(tri_indices_),
     triangle_ids |-> [i \in 1..TRIANGLES_PER_LEAF |->
                          IF i < Len(tri_indices_) THEN tri_indices_[i] ELSE 0]]

\* lines 261-272
LeafNode(box, tri_indices_) ==
    [bbox_min |-> box[1], child1 |-> 0, bbox_max |-> box[2], child2 |-> 0,
     triangle_count |-> Len(tri_indices_),
     triangle_ids |-> [i \in 1..TRIANGLES_PER_LEAF |->
                          IF i <= Len(tri_indices_) THEN tri_indices_[i] ELSE 0]]

\* lines 278-286, as a bug would have it: >= for >, so the lower axis wins a tie
LongestAxisLowerOnTies(box) ==
    LET dbox == Vec3_sub(box[2], box[1])
    IN IF dbox[1] >= dbox[2] /\ dbox[1] >= dbox[3] THEN 0
       ELSE IF dbox[2] >= dbox[3] THEN 1
       ELSE 2

\* lines 278-286: 0, 1 or 2
LongestAxis(box) ==
    LET dbox == Vec3_sub(box[2], box[1])
    IN IF f32_gt(dbox[1], dbox[2]) /\ f32_gt(dbox[1], dbox[3]) THEN 0
       ELSE IF f32_gt(dbox[2], dbox[3]) THEN 1
       ELSE 2

\* lines 290-291: the sort keys, by position in tri_indices
SortKeys(tris, tri_indices_, axis) ==
    SubSeq([p \in 1..Len(tri_indices_) |-> center(tris[tri_indices_[p] + 1])[axis + 1]],
           1, Len(tri_indices_))

\* line 292: partial_cmp(..).unwrap() panics on a NaN key; sorting two or more
\* elements compares every one of them at least once
SortPanics(keys) ==
    /\ Len(keys) >= 2
    /\ \E p \in 1..Len(keys) : f32_partial_cmp(keys[p], keys[p]) = "None"

\* lines 289-293: slice::sort_by is a stable sort: ascending keys, equal keys
\* in their order in tri_indices
SortAlongAxis(tri_indices_, keys) ==
    LET n == Len(tri_indices_)
        before(q, p) ==
            \/ f32_partial_cmp(keys[q], keys[p]) = "Less"
            \/ f32_partial_cmp(keys[q], keys[p]) = "Equal" /\ q < p
    IN With(SortSeq([p \in 1..n |-> p], before), LAMBDA at :
            [r \in 1..n |-> tri_indices_[at[r]]])

\* line 299, as a bug would have it: the midpoint is rounded up
SplitPointRoundedUp(n) == (n + 1) \div 2

\* line 299
SplitPoint(n) == n \div 2

\* lines 306-310, as a bug would have it: the children are exchanged
ParentNodeChildrenExchanged(child1, child2, box) ==
    [bbox_min |-> box[1], child1 |-> child2, bbox_max |-> box[2], child2 |-> child1,
     triangle_count |-> 0, triangle_ids |-> ZeroIds]

\* lines 306-312, as a bug would have it: bbox_max is assigned bbox_min
ParentNodeMinTwice(child1, child2, box) ==
    [bbox_min |-> box[1], child1 |-> child1, bbox_max |-> box[1], child2 |-> child2,
     triangle_count |-> 0, triangle_ids |-> ZeroIds]

\* lines 306-312
ParentNode(child1, child2, box) ==
    [bbox_min |-> box[1], child1 |-> child1, bbox_max |-> box[2], child2 |-> child2,
     triangle_count |-> 0, triangle_ids |-> ZeroIds]

\* BVHNode::bvh_build.  The result holds the tree and the (sorted in place)
\* tri_indices after the call, the returned node_index, and panicked: the
\* unwrap of line 292 failed somewhere in the recursion.
RECURSIVE bvh_build(_, _, _, _)
bvh_build(tris, tri_indices_, tree, max_triangles_per_leaf) ==
    LET node_index == Len(tree)
        abort == [tree |-> tree, tri_indices |-> tri_indices_,
                  node_index |-> node_index, panicked |-> TRUE]
    IN With(NodeBBox(tris, tri_indices_), LAMBDA box :
       IF IsLeafSubset(tri_indices_, max_triangles_per_leaf)
       THEN [tree |-> Append(tree, LeafNode(box, tri_indices_)),
             tri_indices |-> tri_indices_,
             node_index |-> node_index, panicked |-> FALSE]
       ELSE
       With(SortKeys(tris, tri_indices_, LongestAxis(box)), LAMBDA keys :
       IF SortPanics(keys) THEN abort
       ELSE
       With(SortAlongAxis(tri_indices_, keys), LAMBDA sorted :
       With(Append(tree, BVHNode_default), LAMBDA pushed :
       With(SubSeq(sorted, 1, SplitPoint(Len(sorted))), LAMBDA left_indices :
       With(SubSeq(sorted, SplitPoint(Len(sorted)) + 1, Len(sorted)), LAMBDA right_indices :
       With(bvh_build(tris, left_indices, pushed, max_triangles_per_leaf), LAMBDA l :
       IF l.panicked THEN abort
       ELSE
       With(bvh_build(tris, right_indices, l.tree, max_triangles_per_leaf), LAMBDA r :
       IF r.panicked THEN abort
       ELSE [tree |-> [r.tree EXCEPT ![node_index + 1] =
                          ParentNode(l.node_index, r.node_index, box)],
             tri_indices |-> l.tri_indices \o r.tri_indices,
             node_index |-> node_index,
             panicked |-> FALSE]))))))))

(***************************************************************************)
(* The mesh loader (file_load.rs).  A file opens or not and holds lines.   *)
(* Reading a line gives Ok with the line, held as the sequence of its      *)
(* whitespace-separated tokens (what split_whitespace gives, the blank     *)
(* line being <<>>; a token is the sequence of its characters), or Err     *)
(* (the bytes are not UTF-8).  In a broken file every read past the lines  *)
(* gives Err and the end is never reached: a directory is a broken file    *)
(* with no lines.  A usize is held as a natural in limbs (Big...), least   *)
(* significant first, with no leading zero limb: 0 is <<>>.                *)
(***************************************************************************)
DIGITS == <<"0", "1", "2", "3", "4", "5", "6", "7", "8", "9">>

IsDigit(c) == \E d \in 1..Len(DIGITS) : DIGITS[d] = c

DigitValue(c) == (CHOOSE d \in 1..Len(DIGITS) : DIGITS[d] = c) - 1

AllDigits(s) == \A i \in 1..Len(s) : IsDigit(s[i])

\* s without its leading zeros
RECURSIVE StripZeros(_)
StripZeros(s) == IF s # <<>> /\ s[1] = "0" THEN StripZeros(Tail(s)) ELSE s

\* the number of a string of decimal digits
RECURSIVE BigFromDigits(_)
BigFromDigits(s) ==
    IF s = <<>> THEN <<>>
    ELSE BigMulAdd(BigFromDigits(SubSeq(s, 1, Len(s) - 1)), 10, DigitValue(s[Len(s)]))

\* usize::MAX = 2^64 - 1
USIZE_MAX == BigSub(BigShl(<<1>>, 64), <<1>>, 0)

\* the natural number x is, for x < 2^30
BigToNat(x) == BigLimb(x, 1) + LIMB * BigLimb(x, 2)

\* lines 61-63, 74-76: str::parse::<usize>: digits after an optional '+',
\* of a value that fits a usize
usize_from_str(s) ==
    LET body == IF s # <<>> /\ s[1] = "+" THEN Tail(s) ELSE s
        value == BigFromDigits(StripZeros(body))
    IN IF body # <<>> /\ AllDigits(body) /\ BigGe(USIZE_MAX, value)
       THEN [ok |-> TRUE, value |-> value]
       ELSE [ok |-> FALSE, value |-> <<>>]

UPPER == <<"A", "E", "F", "I", "N", "T", "Y">>
LOWER == <<"a", "e", "f", "i", "n", "t", "y">>

\* str::to_ascii_lowercase, on the letters a numeral can hold
to_ascii_lowercase(s) ==
    [i \in 1..Len(s) |->
        IF \E k \in 1..Len(UPPER) : UPPER[k] = s[i]
        THEN LOWER[CHOOSE k \in 1..Len(UPPER) : UPPER[k] = s[i]]
        ELSE s[i]]

\* the exponent f32::from_str reads from a string of digits, first digit
\* first: a digit is taken in while the exponent read so far is below
\* 0x10000, and dropped from then on
RECURSIVE ExponentDigits(_, _)
ExponentDigits(exponent, s) ==
    IF s = <<>> THEN exponent
    ELSE ExponentDigits(IF exponent < 65536
                        THEN Len(DIGITS) * exponent + DigitValue(s[1])
                        ELSE exponent,
                        Tail(s))

ExponentValue(s) == ExponentDigits(0, s)

\* the f32 nearest to digits * 10^p: 3.4e38 is the greatest finite f32 and
\* 1.4e-45 the least positive one
f32_from_decimal(digits, p) ==
    LET d == StripZeros(digits)
    IN IF d = <<>> THEN 0
       ELSE IF Len(d) + p > 39 THEN INFINITY
       ELSE IF Len(d) + p < -45 THEN 0
       ELSE f32_from_ratio(BigTimesPow10(BigFromDigits(d), IF p > 0 THEN p ELSE 0),
                           BigTimesPow10(<<1>>, IF p < 0 THEN -p ELSE 0))

\* lines 37-38, 45-47: f32::from_str.  The numeral, lowercased, is
\*   [sign] (inf | infinity | nan | number [e [sign] digit+])
\* where number is digits with at most one point and at least one digit.
f32_from_str(s) ==
    LET signed == s # <<>> /\ s[1] \in {"+", "-"}
        body == to_ascii_lowercase(IF signed THEN Tail(s) ELSE s)
        sign(a) == IF s # <<>> /\ s[1] = "-" THEN f32_neg(a) ELSE a
        es == {i \in 1..Len(body) : body[i] = "e"}
        e == IF es = {} THEN Len(body) + 1 ELSE CHOOSE i \in es : \A j \in es : i <= j
        number == SubSeq(body, 1, e - 1)
        exponent == SubSeq(body, e + 1, Len(body))
        exponent_signed == exponent # <<>> /\ exponent[1] \in {"+", "-"}
        exponent_digits == IF exponent_signed THEN Tail(exponent) ELSE exponent
        exponent_value == IF es = {} THEN 0
                          ELSE IF exponent[1] = "-" THEN -ExponentValue(exponent_digits)
                          ELSE ExponentValue(exponent_digits)
        points == {i \in 1..Len(number) : number[i] = "."}
        point == IF points = {} THEN Len(number) + 1 ELSE CHOOSE i \in points : TRUE
        whole == SubSeq(number, 1, point - 1)
        fraction == SubSeq(number, point + 1, Len(number))
    IN IF body = <<"i", "n", "f">> \/ body = <<"i", "n", "f", "i", "n", "i", "t", "y">>
       THEN [ok |-> TRUE, value |-> sign(INFINITY)]
       ELSE IF body = <<"n", "a", "n">> THEN [ok |-> TRUE, value |-> NaN]
       ELSE IF /\ Cardinality(points) <= 1
               /\ AllDigits(whole) /\ AllDigits(fraction)
               /\ Len(whole) + Len(fraction) >= 1
               /\ es # {} => exponent_digits # <<>> /\ AllDigits(exponent_digits)
       THEN [ok |-> TRUE,
             value |-> sign(f32_from_decimal(whole \o fraction,
                                             exponent_value - Len(fraction)))]
       ELSE [ok |-> FALSE, value |-> 0]

\* Result::unwrap_or(0.0)
unwrap_or_zero(r) == IF r.ok THEN r.value ELSE 0

\* str::split('/')
RECURSIVE split_slash(_)
split_slash(s) ==
    LET slashes == {i \in 1..Len(s) : s[i] = "/"}
    IN IF slashes = {} THEN <<s>>
       ELSE LET i == CHOOSE j \in slashes : \A k \in slashes : j <= k
            IN <<SubSeq(s, 1, i - 1)>> \o split_slash(SubSeq(s, i + 1, Len(s)))

\* lines 52-57: the fields of the tokens after the first, in order
RECURSIVE FaceTokens(_, _)
FaceTokens(parts, from) ==
    IF from > Len(parts) THEN <<>>
    ELSE split_slash(parts[from]) \o FaceTokens(parts, from + 1)

\* trimmed.starts_with(prefix): the trimmed line starts with its first token
starts_with(parts, prefix) ==
    /\ parts # <<>>
    /\ Len(parts[1]) >= Len(prefix)
    /\ SubSeq(parts[1], 1, Len(prefix)) = prefix

\* verts[token.parse::<usize>().unwrap() - 1] does not yield a vertex: the
\* unwrap fails, or the index is 0 (the subtraction overflows, or wraps to an
\* index past the vector) or past the vertices read so far
IndexPanics(verts, token) ==
    LET r == usize_from_str(token)
    IN ~r.ok \/ BigIsZero(r.value) \/ ~BigGe(BigFromNat(Len(verts)), r.value)

\* verts[token.parse::<usize>().unwrap() - 1]
IndexedVertex(verts, token) == verts[BigToNat(usize_from_str(token).value)]

\* lines 60-68 and 73-80: the triangle of three index tokens is pushed
PushFace(st, t0, t1, t2, material_id) ==
    IF IndexPanics(st.verts, t0) \/ IndexPanics(st.verts, t1) \/ IndexPanics(st.verts, t2)
    THEN [st EXCEPT !.panicked = TRUE]
    ELSE [st EXCEPT !.tris = Append(@,
             [Triangle_default EXCEPT !.vertex_0 = IndexedVertex(st.verts, t0),
                                      !.vertex_1 = IndexedVertex(st.verts, t1),
                                      !.vertex_2 = IndexedVertex(st.verts, t2),
                                      !.material_id = material_id])]

\* the locals of load_mesh_from before the first line
LoaderStart == [has_texture |-> FALSE, verts |-> <<>>, texs |-> <<>>, tris |-> <<>>,
                panicked |-> FALSE]

\* what reading a line gives: Ok with the tokens of the line, or Err
Ok(parts) == [ok |-> TRUE, parts |-> parts]

Err == [ok |-> FALSE, parts |-> <<>>]

\* lines 25-82: the body of the loop, for one line; a line that gives Err is
\* passed over (lines 26-29)
load_line(st, line, material_id) ==
    LET parts == line.parts
    IN
    IF st.panicked \/ ~line.ok THEN st
    ELSE IF starts_with(parts, <<"v", "t">>)
    THEN IF Len(parts) >= 3
         THEN [st EXCEPT !.has_texture = TRUE,
                         !.texs = Append(@,
                             Vec3_new(f32_sub(ONE, unwrap_or_zero(f32_from_str(parts[2]))),
                                      f32_sub(ONE, unwrap_or_zero(f32_from_str(parts[3]))),
                                      0))]
         ELSE [st EXCEPT !.has_texture = TRUE]
    ELSE IF starts_with(parts, <<"v">>)
    THEN IF Len(parts) >= 4
         THEN [st EXCEPT !.verts = Append(@,
                             Vec3_new(unwrap_or_zero(f32_from_str(parts[2])),
                                      unwrap_or_zero(f32_from_str(parts[3])),
                                      unwrap_or_zero(f32_from_str(parts[4]))))]
         ELSE st
    ELSE IF starts_with(parts, <<"f">>)
    THEN IF st.has_texture
         THEN With(FaceTokens(parts, 2), LAMBDA tokens :
                  IF Len(tokens) >= 6
                  THEN PushFace(st, tokens[1], tokens[3], tokens[5], material_id)
                  ELSE st)
         ELSE IF Len(parts) >= 4
              THEN PushFace(st, parts[2], parts[3], parts[4], material_id)
              ELSE st
    ELSE st

\* the locals after the first n lines
RECURSIVE load_lines(_, _, _)
load_lines(lines, n, material_id) ==
    IF n = 0 THEN LoaderStart
    ELSE load_line(load_lines(lines, n - 1, material_id), lines[n], material_id)

\* load_mesh_from: done when the call has ended, with the triangles returned
\* or panicked; hung when the call never ends, because the loop of line 25
\* is given Err by every read of a broken file and goes on for ever
load_mesh_from(f, material_id) ==
    IF ~f.opens
    THEN [done |-> TRUE, hung |-> FALSE, panicked |-> FALSE, tris |-> <<>>,
          material_id |-> material_id]
    ELSE With(load_lines(f.lines, Len(f.lines), material_id), LAMBDA st :
             [done |-> st.panicked \/ ~f.broken,
              hung |-> ~st.panicked /\ f.broken,
              panicked |-> st.panicked,
              tris |-> IF st.panicked \/ f.broken THEN <<>> ELSE st.tris,
              material_id |-> material_id])

\* no file is being loaded; File::open of the path fails
NoFile == [opens |-> FALSE, lines |-> <<>>, broken |-> FALSE]

\* a directory: File::open succeeds and every read fails
Directory == [opens |-> TRUE, lines |-> <<>>, broken |-> TRUE]

\* load_mesh_from has not been called
NotLoaded ==
    [done |-> FALSE, hung |-> FALSE, panicked |-> FALSE, tris |-> <<>>, material_id |-> 0]

(***************************************************************************)
(* Inputs: the triangle lists handed to scene_add_triangles, the materials *)
(* and the spheres.                                                        *)
(***************************************************************************)
\* the f32 a literal of the source is: the one nearest to u * 10^-5
f32_lit(u) ==
    IF u = 0 THEN 0
    ELSE IF u < 0 THEN -f32_from_ratio(BigFromNat(-u), BigFromNat(100000))
    ELSE f32_from_ratio(BigFromNat(u), BigFromNat(100000))

\* the single triangle (0,0,0), (1,0,0), (0,1,0)
MeshTriangle ==
    <<Triangle_new(Vec3_new(0, 0, 0), Vec3_new(ONE, 0, 0), Vec3_new(0, ONE, 0), 0)>>

\* ten flat triangles on a 5 x 5 grid in the plane z = 0: the x and y extents
\* tie, and triangles k and k + 5 share their centroid y
MeshQuads ==
    [i \in 1..10 |->
        LET px == ((i - 1) % 5) * 100000
            py == ((2 * (i - 1)) % 5) * 100000
        IN Triangle_new(Vec3_new(f32_lit(px), f32_lit(py), 0),
                        Vec3_new(f32_lit(px + 100000), f32_lit(py), 0),
                        Vec3_new(f32_lit(px), f32_lit(py + 100000), 0), 1)]

\* 120 triangles along x, listed in an order that is not their x order
MeshStrip ==
    [i \in 1..120 |->
        LET px == ((7 * (i - 1)) % 120) * 30000
            py == ((i - 1) % 4) * 30000
            pz == ((i - 1) % 3) * 30000
        IN Triangle_new(Vec3_new(f32_lit(px), f32_lit(py), f32_lit(pz)),
                        Vec3_new(f32_lit(px + 30000), f32_lit(py), f32_lit(pz)),
                        Vec3_new(f32_lit(px), f32_lit(py + 30000), f32_lit(pz + 30000)), 0)]

\* 300000.0: past 2^18, where neighbouring f32 values are more than 0.02 apart
FAR == f32_from_decimal(<<"3", "0", "0", "0", "0", "0">>, 0)

\* the triangle (0,0,300000), (1,0,300000), (0,1,300000): flat, far along z
MeshFar ==
    <<Triangle_new(Vec3_new(0, 0, FAR), Vec3_new(ONE, 0, FAR), Vec3_new(0, ONE, FAR), 0)>>

\* a triangle with a NaN vertex
MeshNaN ==
    <<Triangle_new(Vec3_all(NaN), Vec3_new(ONE, 0, 0), Vec3_new(0, ONE, 0), 1)>>

Meshes == {MeshTriangle, MeshQuads, MeshStrip, MeshNaN}

\* the lists of finite triangles
FiniteMeshes == {MeshFar, MeshQuads, MeshStrip}

\* the lists used where only their lengths matter
BulkMeshes == {MeshQuads, MeshStrip}

\* the contents of the asset files main loads
AssetMeshes == {MeshTriangle, MeshQuads}

\* main.rs 111-113
ground_mat ==
    [Material_default EXCEPT !.color =
        Vec3_div(Vec3_new(f32_lit(21700000), f32_lit(17700000), f32_lit(10400000)),
                 f32_lit(25500000))]

\* main.rs 116-117
transparent_mat == [Material_default EXCEPT !.roughness_or_ior = f32_lit(-177000)]

Materials == {transparent_mat}

\* main.rs 132-135
sphere1(material_id) ==
    [center |-> Vec3_new(f32_lit(250000), ONE, 0), radius |-> f32_lit(70000),
     material_id |-> material_id]

\* main.rs 138-140
sphere2(material_id) ==
    [center |-> Vec3_new(f32_lit(150000), ONE, f32_lit(-200000)), radius |-> ONE,
     material_id |-> material_id]

Spheres == {sphere1(1)}

(***************************************************************************)
(* Gfx: the scene operations, as functions of the Gfx value g.  A panic    *)
(* ends the program: g.failure names it and no later operation runs.       *)
(***************************************************************************)
\* Scene::new
Scene_new ==
    [materials |-> [i \in 1..MATERIAL_CAPACITY |-> Material_default],
     spheres |-> [i \in 1..SPHERE_CAPACITY |-> Sphere_default],
     triangles |-> [i \in 1..TRIANGLE_CAPACITY |-> Triangle_default],
     sphere_count |-> 0,
     triangle_count |-> 0,
     bvh |-> [i \in 1..BVH_CAPACITY |-> BVHNode_default]]

\* 0.01745329251
DEGREE == f32_from_decimal(<<"1", "7", "4", "5", "3", "2", "9", "2", "5", "1">>, -11)

\* Camera::new, tracer_struct.rs 23-36
Camera_new ==
    [position |-> Vec3_zero,
     direction |-> Vec3_new(0, 0, f32_neg(ONE)),
     fov |-> f32_mul(f32_lit(7500000), DEGREE),
     width |-> ONE,
     focus_distance |-> f32_lit(200000),
     apeture |-> f32_lit(2000),
     diverge_strength |-> f32_lit(400),
     max_ray_bounces |-> 50]

\* Gfx::new, graphics.rs 99-117
Gfx_new ==
    [scene |-> Scene_new, material_count |-> 0, frame_count |-> 0,
     camera |-> Camera_new, tri_indices |-> <<>>, tmp_bvh |-> <<>>,
     ret |-> -1, failure |-> "", appends |-> 0, moves |-> 0]

\* Gfx::scene_add_material, as a bug would have it: the count after the
\* increment is returned
scene_add_material_returns_count(g, material) ==
    IF g.failure # "" THEN g
    ELSE IF g.material_count >= MATERIAL_CAPACITY
    THEN [g EXCEPT !.failure = "index out of bounds"]
    ELSE [g EXCEPT !.scene.materials[g.material_count + 1] = material,
                   !.material_count = g.material_count + 1,
                   !.ret = g.material_count + 1]

\* Gfx::scene_add_material
scene_add_material(g, material) ==
    IF g.failure # "" THEN g
    ELSE IF g.material_count >= MATERIAL_CAPACITY
    THEN [g EXCEPT !.failure = "index out of bounds"]
    ELSE [g EXCEPT !.scene.materials[g.material_count + 1] = material,
                   !.material_count = g.material_count + 1,
                   !.ret = (g.material_count + 1) - 1]

\* Gfx::scene_add_sphere
scene_add_sphere(g, sphere) ==
    IF g.failure # "" THEN g
    ELSE IF g.scene.sphere_count >= SPHERE_CAPACITY
    THEN [g EXCEPT !.failure = "index out of bounds"]
    ELSE [g EXCEPT !.scene.spheres[g.scene.sphere_count + 1] = sphere,
                   !.scene.sphere_count = g.scene.sphere_count + 1]

\* Gfx::scene_add_triangles: the loop writes one triangle per iteration and
\* panics at the first index past the array
scene_add_triangles(g, tris) ==
    IF g.failure # "" THEN g
    ELSE LET room == TRIANGLE_CAPACITY - g.scene.triangle_count
             written == IF Len(tris) <= room THEN Len(tris) ELSE room
             count == g.scene.triangle_count
         IN [g EXCEPT !.scene.triangles =
                          [i \in 1..TRIANGLE_CAPACITY |->
                              IF i > count /\ i <= count + written
                              THEN tris[i - count] ELSE g.scene.triangles[i]],
                      !.scene.triangle_count = count + written,
                      !.failure = IF Len(tris) > room THEN "index out of bounds" ELSE "",
                      !.appends = g.appends + 1]

\* line 529: let mut tmp_bvh = Vec::new()
NewTree(g) == <<>>

\* lines 532-534, as a bug would have it: only the leaves are copied
CopyLeaves(bvh_, tree) ==
    [i \in 1..BVH_CAPACITY |->
        IF i <= Len(tree) /\ tree[i].triangle_count > 0 THEN tree[i] ELSE bvh_[i]]

\* lines 532-534: the first 96 nodes overwrite the slots of the same index
CopyNodes(bvh_, tree) ==
    [i \in 1..BVH_CAPACITY |-> IF i <= Len(tree) THEN tree[i] ELSE bvh_[i]]

\* Gfx::scene_build
scene_build(g) ==
    IF g.failure # "" THEN g
    ELSE With(bvh_build(g.scene.triangles, [i \in 1..g.scene.triangle_count |-> i - 1],
                        NewTree(g), MAX_LEAF_ARG), LAMBDA built :
              IF built.panicked
              THEN [g EXCEPT !.failure = "unwrap on None"]
              ELSE [g EXCEPT !.scene.bvh = CopyNodes(g.scene.bvh, built.tree),
                             !.tri_indices = built.tri_indices,
                             !.tmp_bvh = built.tree])

\* Gfx::scene_update: scene_build, then the scene is written to the GPU buffer
scene_update(g) == scene_build(g)

\* Gfx::render_reset, as a bug would have it: frame_count is left as it is
render_reset_keeps_count(g) == g

\* Gfx::render_reset
render_reset(g) == IF g.failure # "" THEN g ELSE [g EXCEPT !.frame_count = 0]

\* Gfx::render_frame, line 402
render_frame(g) ==
    IF g.failure # "" THEN g ELSE [g EXCEPT !.frame_count = g.frame_count + 1]

(***************************************************************************)
(* The state as one Gfx value, and its installation as the next state.     *)
(***************************************************************************)
Gfx ==
    [scene |-> [materials |-> materials, spheres |-> spheres, triangles |-> triangles,
                sphere_count |-> sphere_count, triangle_count |-> triangle_count,
                bvh |-> bvh],
     material_count |-> material_count, frame_count |-> frame_count,
     camera |-> camera, tri_indices |-> tri_indices, tmp_bvh |-> tmp_bvh,
     ret |-> ret, failure |-> failure, appends |-> appends, moves |-> moves]

Install(g) ==
    /\ materials' = g.scene.materials
    /\ spheres' = g.scene.spheres
    /\ triangles' = g.scene.triangles
    /\ sphere_count' = g.scene.sphere_count
    /\ triangle_count' = g.scene.triangle_count
    /\ bvh' = g.scene.bvh
    /\ material_count' = g.material_count
    /\ frame_count' = g.frame_count
    /\ camera' = g.camera
    /\ tri_indices' = g.tri_indices
    /\ tmp_bvh' = g.tmp_bvh
    /\ ret' = g.ret
    /\ failure' = g.failure
    /\ appends' = g.appends
    /\ moves' = g.moves

InitGfx(g) ==
    /\ materials = g.scene.materials
    /\ spheres = g.scene.spheres
    /\ triangles = g.scene.triangles
    /\ sphere_count = g.scene.sphere_count
    /\ triangle_count = g.scene.triangle_count
    /\ bvh = g.scene.bvh
    /\ material_count = g.material_count
    /\ frame_count = g.frame_count
    /\ camera = g.camera
    /\ tri_indices = g.tri_indices
    /\ tmp_bvh = g.tmp_bvh
    /\ ret = g.ret
    /\ failure = g.failure
    /\ appends = g.appends
    /\ moves = g.moves

Running == gfx /\ failure = ""

(***************************************************************************)
(* The scene interface of a constructed Gfx, called in any order.          *)
(***************************************************************************)
Init ==
    /\ InitGfx(Gfx_new)
    /\ gfx = TRUE
    /\ button_state = [i \in 1..BUTTON_SLOTS |-> FALSE]
    /\ dirty = FALSE
    /\ save_divisor = -1
    /\ mesh_file = NoFile
    /\ loaded = NotLoaded

SceneAddMaterial ==
    /\ Running
    /\ \E material \in Materials :
           \E g \in {scene_add_material(Gfx, material)} : Install(g)
    /\ UNCHANGED <<gfx, button_state, dirty, save_divisor, mesh_file, loaded>>

SceneAddSphere ==
    /\ Running
    /\ \E sphere \in Spheres :
           \E g \in {scene_add_sphere(Gfx, sphere)} : Install(g)
    /\ UNCHANGED <<gfx, button_state, dirty, save_divisor, mesh_file, loaded>>

SceneAddTriangles(meshes) ==
    /\ Running
    /\ appends < MaxAppends
    /\ \E tris \in meshes :
           \E g \in {scene_add_triangles(Gfx, tris)} : Install(g)
    /\ UNCHANGED <<gfx, button_state, dirty, save_divisor, mesh_file, loaded>>

SceneUpdate ==
    /\ Running
    /\ \E g \in {scene_update(Gfx)} : Install(g)
    /\ UNCHANGED <<gfx, button_state, dirty, save_divisor, mesh_file, loaded>>

Next == SceneAddTriangles(Meshes) \/ SceneUpdate

Spec == Init /\ [][Next]_vars

\* appends of finite triangles, and builds
NextFinite == SceneAddTriangles(FiniteMeshes) \/ SceneUpdate

SpecFinite == Init /\ [][NextFinite]_vars

\* the three append operations alone
NextAppend == SceneAddMaterial \/ SceneAddSphere \/ SceneAddTriangles(BulkMeshes)

SpecAppend == Init /\ [][NextAppend]_vars

(***************************************************************************)
(* Camera (tracer_struct.rs 38-70).                                        *)
(***************************************************************************)
WORLD_UP == Vec3_new(0, ONE, 0)

get_right_direction(c) == Vec3_neg(Vec3_normalized(Vec3_cross(c.direction, WORLD_UP)))

get_up_direction(c) == Vec3_normalized(Vec3_cross(c.direction, get_right_direction(c)))

move_foward(c, ammount) ==
    [c EXCEPT !.position = Vec3_add(@, Vec3_mul(c.direction, ammount))]

move_right(c, ammount) ==
    [c EXCEPT !.position = Vec3_add(@, Vec3_mul(get_right_direction(c), ammount))]

move_up(c, ammount) ==
    [c EXCEPT !.position = Vec3_add(@, Vec3_mul(get_up_direction(c), ammount))]

pan(c, ammount) ==
    [c EXCEPT !.direction =
        Vec3_normalized(Vec3_add(@, Vec3_mul(get_right_direction(c), ammount)))]

tilt(c, ammount) ==
    [c EXCEPT !.direction =
        Vec3_normalized(Vec3_add(@, Vec3_mul(get_up_direction(c), ammount)))]

(***************************************************************************)
(* The application (main.rs): Shrimpy's handlers.                          *)
(***************************************************************************)
\* what load_mesh_from returns for an asset file: the triangles of the file,
\* each with the material_id passed
LoadedAsset(file, material_id) ==
    [i \in 1..Len(file) |-> [file[i] EXCEPT !.material_id = material_id]]

\* main.rs 125-129
Scale5(tris) ==
    [i \in 1..Len(tris) |->
        [tris[i] EXCEPT !.vertex_0 = [k \in 1..3 |-> f32_mul5(@[k])],
                        !.vertex_1 = [k \in 1..3 |-> f32_mul5(@[k])],
                        !.vertex_2 = [k \in 1..3 |-> f32_mul5(@[k])]]]

\* 1.35
LIFT == f32_lit(135000)

\* main.rs 147-151
Lift(tris) ==
    [i \in 1..Len(tris) |->
        [tris[i] EXCEPT !.vertex_0 = Vec3_add(@, Vec3_new(0, LIFT, 0)),
                        !.vertex_1 = Vec3_add(@, Vec3_new(0, LIFT, 0)),
                        !.vertex_2 = Vec3_add(@, Vec3_new(0, LIFT, 0))]]

\* main.rs 109-161: the gfx_callback of main, statement by statement; st holds
\* gfx and the two material ids the callback keeps
SceneLocals(g) == [g |-> g, ground_mat_id |-> 0, trans_mat_id |-> 0]

\* main.rs 111-114
AddGroundMat(st) ==
    LET g1 == scene_add_material(st.g, ground_mat)
    IN [st EXCEPT !.g = g1, !.ground_mat_id = g1.ret]

\* main.rs 116-118
AddTransMat(st) ==
    LET g2 == scene_add_material(st.g, transparent_mat)
    IN [st EXCEPT !.g = g2, !.trans_mat_id = g2.ret]

\* main.rs 121-130; plane is the contents of the asset file
AddGround(st, plane) ==
    [st EXCEPT !.g = scene_add_triangles(@, Scale5(LoadedAsset(plane, st.ground_mat_id)))]

\* main.rs 132-141
AddSpheres(st) ==
    [st EXCEPT !.g = scene_add_sphere(scene_add_sphere(@, sphere1(st.trans_mat_id)),
                                      sphere2(st.ground_mat_id))]

\* main.rs 143-152; dodecahedron is the contents of the asset file
AddDodec(st, dodecahedron) ==
    [st EXCEPT !.g = scene_add_triangles(@, Lift(LoadedAsset(dodecahedron, st.trans_mat_id)))]

\* main.rs 156-160
SetCamera(g) ==
    IF g.failure # "" THEN g
    ELSE [g EXCEPT !.camera.max_ray_bounces = 1000,
                   !.camera.apeture = 0,
                   !.camera.position = Vec3_new(0, f32_lit(150000), f32_lit(200000))]

\* main.rs 109-161: the gfx_callback of main
main_scene_build(g, plane, dodecahedron) ==
    SetCamera(scene_update(
        AddDodec(AddSpheres(AddGround(AddTransMat(AddGroundMat(SceneLocals(g))), plane)),
                 dodecahedron).g))

AppInit ==
    /\ InitGfx(Gfx_new)
    /\ gfx = FALSE
    /\ button_state = [i \in 1..BUTTON_SLOTS |-> FALSE]
    /\ dirty = FALSE
    /\ save_divisor = -1
    /\ mesh_file = NoFile
    /\ loaded = NotLoaded

\* Shrimpy::resumed: Gfx::new, then the callback.  Emitted once, before any
\* other event.
Resumed ==
    /\ ~gfx
    /\ failure = ""
    /\ gfx' = TRUE
    /\ \E plane \in AssetMeshes, dodecahedron \in AssetMeshes :
           \E g \in {main_scene_build(Gfx_new, plane, dodecahedron)} : Install(g)
    /\ dirty' = TRUE
    /\ UNCHANGED <<button_state, save_divisor, mesh_file, loaded>>

\* Shrimpy::window_event, RedrawRequested
RedrawRequested ==
    /\ Running
    /\ frame_count < MaxFrames
    /\ \E g \in {render_frame(Gfx)} : Install(g)
    /\ dirty' = FALSE
    /\ UNCHANGED <<gfx, button_state, save_divisor, mesh_file, loaded>>

\* the number of events that have moved the camera, once an event has left
\* it as c
Moved(c) == IF c = camera THEN moves ELSE moves + 1

\* the deltas (dx, dy) of a MouseMotion event: none, or one unit each way
MotionDeltas == {<<0, 0>>, <<ONE, ONE>>}

\* Shrimpy::device_event, MouseWheel { delta }: y is the y of a LineDelta, or
\* of a PixelDelta as f32
MouseWheel ==
    /\ Running
    /\ moves < MaxCameraSteps
    /\ \E y \in {0, ONE} :
           \E c \in {move_foward(camera, f32_neg(f32_mul(y, f32_lit(100))))} :
               /\ \E g \in {render_reset([Gfx EXCEPT !.camera = c, !.moves = Moved(c)])} :
                      Install(g)
               /\ dirty' = (dirty \/ c # camera)
    /\ UNCHANGED <<gfx, button_state, save_divisor, mesh_file, loaded>>

\* Gfx::save_render, graphics.rs 505: the value every accumulated sample is
\* divided by
save_render(g) == g.frame_count

\* Shrimpy::device_event, Button { button, state }; save_render reads the
\* accumulated radiance and writes a file, and changes nothing of Gfx
Button ==
    /\ Running
    /\ \E button \in 0..BUTTON_SLOTS, pressed \in BOOLEAN :
           IF button >= BUTTON_SLOTS
           THEN /\ failure' = "index out of bounds"
                /\ UNCHANGED <<button_state, save_divisor>>
           ELSE /\ button_state' = [button_state EXCEPT ![button + 1] = pressed]
                /\ save_divisor' = IF pressed /\ button = 2
                                   THEN save_render(Gfx) ELSE save_divisor
                /\ UNCHANGED failure
    /\ UNCHANGED <<materials, spheres, triangles, sphere_count, triangle_count, bvh,
                   material_count, frame_count, camera, tri_indices, tmp_bvh, ret,
                   gfx, appends, moves, dirty, mesh_file, loaded>>

\* Shrimpy::device_event, MouseMotion { delta: (dx, dy) }: delta[1] is dx
\* and delta[2] is dy, as f32
MouseMotion ==
    /\ Running
    /\ moves < MaxCameraSteps
    /\ \E delta \in MotionDeltas :
           \E c \in {IF button_state[3 + 1]
                     THEN tilt(pan(camera, f32_mul(f32_neg(delta[1]), f32_lit(400))),
                               f32_mul(delta[2], f32_lit(400)))
                     ELSE IF button_state[1 + 1]
                     THEN move_right(move_up(camera, f32_mul(delta[2], f32_lit(400))),
                                     f32_mul(f32_neg(delta[1]), f32_lit(400)))
                     ELSE camera} :
               /\ \E g \in {IF button_state[3 + 1] \/ button_state[1 + 1]
                            THEN render_reset([Gfx EXCEPT !.camera = c, !.moves = Moved(c)])
                            ELSE Gfx} : Install(g)
               /\ dirty' = (dirty \/ c # camera)
    /\ UNCHANGED <<gfx, button_state, save_divisor, mesh_file, loaded>>

AppNext == Resumed \/ RedrawRequested \/ MouseWheel \/ Button \/ MouseMotion

AppSpec == AppInit /\ [][AppNext]_vars

(***************************************************************************)
(* The mesh loader, called on a path: one that does not open, a directory, *)
(* or a file of three vertex lines followed by up to MaxLines lines of any *)
(* kind, readable to its end or broken after them.                         *)
(***************************************************************************)
\* v 0 0 0 / v 1 0 0 / v 0 1 0
HeaderLines ==
    <<<<<<"v">>, <<"0">>, <<"0">>, <<"0">>>>,
      <<<<"v">>, <<"1">>, <<"0">>, <<"0">>>>,
      <<<<"v">>, <<"0">>, <<"1">>, <<"0">>>>>>

\* v 2 0.5 -1
LineVertex == <<<<"v">>, <<"2">>, <<"0", ".", "5">>, <<"-", "1">>>>
\* v x 1 1
LineVertexWord == <<<<"v">>, <<"x">>, <<"1">>, <<"1">>>>
\* v 1 2
LineVertexShort == <<<<"v">>, <<"1">>, <<"2">>>>
\* vn 0 0 1
LineNormal == <<<<"v", "n">>, <<"0">>, <<"0">>, <<"1">>>>
\* vt 0 1
LineTexture == <<<<"v", "t">>, <<"0">>, <<"1">>>>
\* f 1 2 3
LineFace == <<<<"f">>, <<"1">>, <<"2">>, <<"3">>>>
\* f 1/1 2/1 3/1
LineFaceTextured ==
    <<<<"f">>, <<"1", "/", "1">>, <<"2", "/", "1">>, <<"3", "/", "1">>>>
\* f 1 2 4
LineFaceFar == <<<<"f">>, <<"1">>, <<"2">>, <<"4">>>>
\* f 0 1 2
LineFaceZero == <<<<"f">>, <<"0">>, <<"1">>, <<"2">>>>
\* f a 1 2
LineFaceWord == <<<<"f">>, <<"a">>, <<"1">>, <<"2">>>>
\* the blank line
LineBlank == <<>>

BodyLines ==
    {LineVertex, LineVertexWord, LineVertexShort, LineNormal, LineTexture, LineFace,
     LineFaceTextured, LineFaceFar, LineFaceZero, LineFaceWord, LineBlank}

\* what reading a line of the body gives
BodyResults == {Ok(parts) : parts \in BodyLines} \cup {Err}

MeshFiles ==
    {NoFile, Directory} \cup
    {[opens |-> TRUE,
      lines |-> [i \in 1..Len(HeaderLines) |-> Ok(HeaderLines[i])] \o body,
      broken |-> broken] :
        body \in UNION {[1..n -> BodyResults] : n \in 0..MaxLines},
        broken \in BOOLEAN}

LoaderInit ==
    /\ InitGfx(Gfx_new)
    /\ gfx = TRUE
    /\ button_state = [i \in 1..BUTTON_SLOTS |-> FALSE]
    /\ dirty = FALSE
    /\ save_divisor = -1
    /\ mesh_file \in MeshFiles
    /\ loaded = NotLoaded

\* a call of load_mesh_from on the file, as main.rs 120 and 143 make it
LoadMeshFrom ==
    /\ ~loaded.done
    /\ ~loaded.hung
    /\ \E material_id \in {0, 1} : loaded' = load_mesh_from(mesh_file, material_id)
    /\ UNCHANGED <<materials, spheres, triangles, sphere_count, triangle_count, bvh,
                   material_count, frame_count, camera, tri_indices, tmp_bvh, ret,
                   gfx, button_state, failure, appends, moves, dirty, save_divisor,
                   mesh_file>>

LoaderNext == LoadMeshFrom

LoaderSpec == LoaderInit /\ [][LoaderNext]_vars

(***************************************************************************)
(* Properties of the node array the builder produced (tmp_bvh, over the    *)
(* indices tri_indices) and of the scene after scene_build.                *)
(***************************************************************************)
\* the builder has run and returned
HasBuilt == tmp_bvh # <<>>

\* scene_build has run on the triangles the scene holds now
Built == failure = "" /\ HasBuilt /\ Len(tri_indices) = triangle_count

\* the (node, slot) pairs of tree that list a triangle: slot <= triangle_count
Listed(tree) ==
    {p \in (1..Len(tree)) \X (1..TRIANGLES_PER_LEAF) : p[2] <= tree[p[1]].triangle_count}

\* a node bvh_build wrote as a parent: its first child follows it, so child1 > 0
IsParent(node) == node.child1 # 0

\* C1: in the node array bvh_build produces for an index subset, every index
\* of the subset is listed by exactly one leaf, exactly once, and no leaf
\* lists an index outside the subset.
C1_Partition ==
    HasBuilt =>
        With(Listed(tmp_bvh), LAMBDA listed :
            /\ Cardinality(listed) = Len(tri_indices)
            /\ {tmp_bvh[p[1]].triangle_ids[p[2]] : p \in listed} = 0..(Len(tri_indices) - 1)
            /\ {tri_indices[i] : i \in 1..Len(tri_indices)} = 0..(Len(tri_indices) - 1))

\* a tree with two leaves or more has been built over eight indices or more
C1_Witness ==
    /\ HasBuilt
    /\ Len(tri_indices) > TRIANGLES_PER_LEAF
    /\ Cardinality({k \in 1..Len(tmp_bvh) : tmp_bvh[k].triangle_count > 0}) >= 2

\* the nodes reachable from bvh[0] through child1 and child2 of the nodes with
\* triangle_count = 0, as 0-based indices; a child index past the array is
\* not followed
RECURSIVE ReachableFrom(_, _)
ReachableFrom(frontier, seen) ==
    IF frontier = {} THEN seen
    ELSE With({c \in UNION {{bvh[k + 1].child1, bvh[k + 1].child2} : k \in
                   {f \in frontier : bvh[f + 1].triangle_count = 0}} :
                   c < BVH_CAPACITY /\ c \notin seen /\ c \notin frontier}, LAMBDA next :
              ReachableFrom(next, seen \cup frontier))

Reachable == ReachableFrom({0}, {})

\* the number of nodes scene_build copied into bvh
node_count_used == IF Len(tmp_bvh) < BVH_CAPACITY THEN Len(tmp_bvh) ELSE BVH_CAPACITY

\* C2: after appends within the capacity and build(), every node reachable
\* from bvh[0] is a leaf whose listed ids are below triangle_count or an
\* internal node whose children are below node_count_used.
C2_ReachableNodesValid ==
    Built =>
        \A k \in Reachable :
            IF bvh[k + 1].triangle_count > 0
            THEN \A j \in 1..bvh[k + 1].triangle_count :
                     bvh[k + 1].triangle_ids[j] < triangle_count
            ELSE /\ bvh[k + 1].child1 < node_count_used
                 /\ bvh[k + 1].child2 < node_count_used

\* C3: for a non-empty triangle set every leaf of the node array lists
\* between 1 and 7 triangles, and every other node is a parent with
\* triangle_count 0 (so no subset of more than 7 indices became a leaf).
C3_LeafSize ==
    (HasBuilt /\ Len(tri_indices) > 0) =>
        \A k \in 1..Len(tmp_bvh) :
            IF IsParent(tmp_bvh[k])
            THEN tmp_bvh[k].triangle_count = 0
            ELSE /\ tmp_bvh[k].triangle_count >= 1
                 /\ tmp_bvh[k].triangle_count <= TRIANGLES_PER_LEAF

\* scene_build has produced a tree with a full leaf of 7 triangles below a parent
C3_Witness ==
    /\ Built
    /\ IsParent(tmp_bvh[1])
    /\ \E k \in 1..Len(tmp_bvh) : tmp_bvh[k].triangle_count = TRIANGLES_PER_LEAF

\* a and b are equal, or finite with b no further from a than the inflation
\* moves a face: between a - 0.01 and a + 0.01 as f32 computes them
Within001(a, b) ==
    \/ a = b
    \/ /\ ~f32_is_nan(a) /\ ~f32_is_nan(b)
       /\ Abs(a) < INFINITY /\ Abs(b) < INFINITY
       /\ f32_sub(a, DEGENERATE_PAD) <= b
       /\ b <= f32_add(a, DEGENERATE_PAD)

\* the componentwise union of the boxes stored in the children of tree[k]
ChildUnion(tree, k) ==
    <<Vec3_min(tree[tree[k].child1 + 1].bbox_min, tree[tree[k].child2 + 1].bbox_min),
      Vec3_max(tree[tree[k].child1 + 1].bbox_max, tree[tree[k].child2 + 1].bbox_max)>>

\* C4: for a non-empty triangle set, the box of every internal node is the
\* componentwise union of the boxes of its two children, to within 0.01 per
\* face.
C4_ParentBoxIsUnion ==
    (HasBuilt /\ Len(tri_indices) > 0) =>
        \A k \in 1..Len(tmp_bvh) :
            IsParent(tmp_bvh[k]) =>
                /\ tmp_bvh[k].child1 < Len(tmp_bvh)
                /\ tmp_bvh[k].child2 < Len(tmp_bvh)
                /\ With(ChildUnion(tmp_bvh, k), LAMBDA u :
                       \A i \in 1..3 :
                           /\ Within001(tmp_bvh[k].bbox_min[i], u[1][i])
                           /\ Within001(tmp_bvh[k].bbox_max[i], u[2][i]))

\* a parent whose box is not the exact union: a child is flat on an axis where
\* the parent is not, and its widened box reaches past the parent's
C4_Witness ==
    /\ HasBuilt
    /\ \E k \in 1..Len(tmp_bvh) :
           /\ IsParent(tmp_bvh[k])
           /\ ChildUnion(tmp_bvh, k) # <<tmp_bvh[k].bbox_min, tmp_bvh[k].bbox_max>>

\* the bvh array of a Scene::new() that holds the triangles of this scene,
\* after one scene_build
FreshBvh ==
    scene_build([Gfx_new EXCEPT !.scene.triangles = triangles,
                                !.scene.triangle_count = triangle_count]).scene.bvh

\* C6: after any sequence of appends and builds that ends in a build, the
\* whole bvh array is what one build on a fresh Scene with the same triangles
\* gives; so nothing of an earlier build survives, and a second build in a row
\* changes nothing.
C6_BuildRegenerates == Built => bvh = FreshBvh

\* a build after two appends, of a tree with parents
C6_Witness == Built /\ appends >= 2 /\ IsParent(tmp_bvh[1]) /\ Len(tmp_bvh) > 3

\* C7: whenever the camera or the scene has changed since the last
\* render_frame, frame_count is 0, so the next render_frame runs with
\* frame_count = 1.
C7_ResetHandshake == dirty => frame_count = 0

\* the camera was moved by an event after the scene was set up
C7_Witness == gfx /\ dirty /\ failure = "" /\ moves > 0

\* C8: the counts never pass the capacities; the slots below a count are the
\* ones written and no other slot is; scene_add_material returned the index
\* of the last slot written; and the only failure is the out-of-bounds panic
\* of an append to a full container.
C8_Capacity ==
    /\ material_count <= MATERIAL_CAPACITY
    /\ sphere_count <= SPHERE_CAPACITY
    /\ triangle_count <= TRIANGLE_CAPACITY
    /\ \A i \in 1..MATERIAL_CAPACITY : (materials[i] # Material_default) <=> (i <= material_count)
    /\ \A i \in 1..SPHERE_CAPACITY : (spheres[i] # Sphere_default) <=> (i <= sphere_count)
    /\ \A i \in 1..TRIANGLE_CAPACITY : (triangles[i] # Triangle_default) <=> (i <= triangle_count)
    /\ ret = material_count - 1
    /\ failure # "" =>
           /\ failure = "index out of bounds"
           /\ \/ material_count = MATERIAL_CAPACITY
              \/ sphere_count = SPHERE_CAPACITY
              \/ triangle_count = TRIANGLE_CAPACITY

\* scene_add_material was called on a full materials array
C8_Witness == failure = "index out of bounds" /\ material_count = MATERIAL_CAPACITY

\* C9: bvh_build has no failure path: scene_build never ends in the panic of
\* the unwrap in the sort comparator.
C9_BuilderNeverAborts == failure # "unwrap on None"

\* C10: the builder is only entered with a non-empty index subset.
C10_BuilderNotRunOnEmptyScene == HasBuilt => Len(tri_indices) > 0

\* the locals of load_mesh_from after the first n lines of the file
LoaderAfter(n) == load_lines(mesh_file.lines, n, loaded.material_id)

\* token is a 1-based index of one of the nverts vertices read so far
VertexIndex(token, nverts) ==
    /\ usize_from_str(token).ok
    /\ ~BigIsZero(usize_from_str(token).value)
    /\ BigGe(BigFromNat(nverts), usize_from_str(token).value)

\* token is v/vt: a vertex index and a texture-coordinate index
TexturedIndex(token, nverts) ==
    /\ Len(split_slash(token)) = 2
    /\ VertexIndex(split_slash(token)[1], nverts)
    /\ usize_from_str(split_slash(token)[2]).ok
    /\ ~BigIsZero(usize_from_str(split_slash(token)[2]).value)

\* an f line of three plain indices, or of three v/vt pairs
WellFormedFace(parts, nverts) ==
    /\ Len(parts) = 4
    /\ parts[1] = <<"f">>
    /\ \/ \A i \in 2..4 : VertexIndex(parts[i], nverts)
       \/ \A i \in 2..4 : TexturedIndex(parts[i], nverts)

\* the vertex a token of a well-formed face names
FaceVertex(verts, token) == verts[BigToNat(usize_from_str(split_slash(token)[1]).value)]

\* a v line without three numbers, or an f line that is not well-formed
Malformed(parts, nverts) ==
    /\ parts # <<>>
    /\ \/ /\ parts[1] = <<"v">>
          /\ \/ Len(parts) < 4
             \/ \E i \in 2..4 : ~f32_from_str(parts[i]).ok
       \/ /\ parts[1] = <<"f">>
          /\ ~WellFormedFace(parts, nverts)

\* C11: load_mesh_from returns for every file: the call always ends and never
\* panics, a file that does not open gives the empty list, and a malformed
\* line leaves the vertices and the triangles read so far as they were.
C11_LoaderNeverCrashes ==
    /\ ~loaded.hung
    /\ loaded.done =>
        /\ ~loaded.panicked
        /\ ~mesh_file.opens => loaded.tris = <<>>
        /\ \A k \in 1..Len(mesh_file.lines) :
               Malformed(mesh_file.lines[k].parts, Len(LoaderAfter(k - 1).verts)) =>
                   /\ LoaderAfter(k).verts = LoaderAfter(k - 1).verts
                   /\ LoaderAfter(k).tris = LoaderAfter(k - 1).tris

\* C12: every well-formed face line, plain or with texture indices, before or
\* after the vt lines of the file, adds exactly one triangle: the vertices at
\* its three indices, with the material_id passed to the loader.
C12_FaceYieldsTriangle ==
    (loaded.done \/ loaded.hung) =>
        \A k \in 1..Len(mesh_file.lines) :
            With(LoaderAfter(k - 1), LAMBDA before :
                (~before.panicked
                     /\ WellFormedFace(mesh_file.lines[k].parts, Len(before.verts))) =>
                    LoaderAfter(k) =
                        [before EXCEPT !.tris = Append(@,
                            Triangle_new(FaceVertex(before.verts, mesh_file.lines[k].parts[2]),
                                         FaceVertex(before.verts, mesh_file.lines[k].parts[3]),
                                         FaceVertex(before.verts, mesh_file.lines[k].parts[4]),
                                         loaded.material_id))])

\* the triangle indices the leaves below tree[k] list; a child index that
\* does not lie after its parent is not followed
RECURSIVE SubtreeIds(_, _)
SubtreeIds(tree, k) ==
    IF ~IsParent(tree[k])
    THEN {tree[k].triangle_ids[j] : j \in 1..tree[k].triangle_count}
    ELSE UNION {SubtreeIds(tree, c + 1) :
                    c \in {d \in {tree[k].child1, tree[k].child2} : d >= k /\ d < Len(tree)}}

\* the number of nodes of the subtree of tree[k], counted the same way
RECURSIVE SubtreeSize(_, _)
SubtreeSize(tree, k) ==
    IF ~IsParent(tree[k]) THEN 1
    ELSE With({d \in {tree[k].child1, tree[k].child2} : d >= k /\ d < Len(tree)}, LAMBDA cs :
             IF Cardinality(cs) < 2 THEN 1
             ELSE 1 + SubtreeSize(tree, tree[k].child1 + 1)
                    + SubtreeSize(tree, tree[k].child2 + 1))

\* the centroid coordinate of triangle id on axis (0, 1 or 2)
CentroidOn(id, axis) == center(triangles[id + 1])[axis + 1]

\* no triangle below child1 of tree[k] lies after a triangle below child2 along axis
SplitAlong(tree, k, axis) ==
    With({CentroidOn(id, axis) : id \in SubtreeIds(tree, tree[k].child1 + 1)}, LAMBDA left :
    With({CentroidOn(id, axis) : id \in SubtreeIds(tree, tree[k].child2 + 1)}, LAMBDA right :
        \A a \in left, b \in right : a <= b))

\* the extent of the box stored in a node, per axis: bbox_max - bbox_min in f32
Extent(node) == [i \in 1..3 |-> f32_sub(node.bbox_max[i], node.bbox_min[i])]

\* the axes on which the box of the node has its greatest extent
GreatestAxes(node) ==
    {a \in 0..2 : \A b \in 0..2 : Extent(node)[a + 1] >= Extent(node)[b + 1]}

\* the lowest, and the highest, of the axes of greatest extent
LowestGreatestAxis(node) ==
    CHOOSE a \in GreatestAxes(node) : \A b \in GreatestAxes(node) : a <= b

HighestGreatestAxis(node) ==
    CHOOSE a \in GreatestAxes(node) : \A b \in GreatestAxes(node) : a >= b

\* the triangles the builder ran on are finite
FiniteScene ==
    \A i \in 1..Len(tri_indices) : \A k \in 1..3 :
        /\ Abs(triangles[i].vertex_0[k]) < INFINITY
        /\ Abs(triangles[i].vertex_1[k]) < INFINITY
        /\ Abs(triangles[i].vertex_2[k]) < INFINITY

\* C13 as claimed: every parent was split along the axis of greatest extent
\* of its box, the lowest such axis when two or three tie.
C13_SplitAxisLowestOnTies ==
    (HasBuilt /\ FiniteScene) =>
        \A k \in 1..Len(tmp_bvh) :
            IsParent(tmp_bvh[k]) => SplitAlong(tmp_bvh, k, LowestGreatestAxis(tmp_bvh[k]))

\* C13, amended: every parent was split along the axis of greatest extent of
\* its box, and when two or three axes tie the highest of them is chosen (z
\* before y before x): x only when its extent is strictly the greatest, else y
\* when its extent is strictly greater than that of z, else z.
C13_SplitAxisHighestOnTies ==
    (HasBuilt /\ FiniteScene) =>
        \A k \in 1..Len(tmp_bvh) :
            IsParent(tmp_bvh[k]) =>
                /\ LongestAxis(<<tmp_bvh[k].bbox_min, tmp_bvh[k].bbox_max>>)
                       = HighestGreatestAxis(tmp_bvh[k])
                /\ SplitAlong(tmp_bvh, k, HighestGreatestAxis(tmp_bvh[k]))

\* a tree whose root has two axes of the same, greatest extent, and is not
\* split along the lower one
C13_Witness ==
    /\ Built
    /\ FiniteScene
    /\ IsParent(tmp_bvh[1])
    /\ Cardinality(GreatestAxes(tmp_bvh[1])) >= 2
    /\ ~SplitAlong(tmp_bvh, 1, LowestGreatestAxis(tmp_bvh[1]))

\* C14: the root is node 0, and every parent at index p has child1 = p + 1
\* and child2 = child1 + (the number of nodes of the subtree of child1), the
\* subtree of child2 ending within the array; the subtree of the root is the
\* whole array.
C14_DepthFirstLayout ==
    HasBuilt =>
        /\ SubtreeSize(tmp_bvh, 1) = Len(tmp_bvh)
        /\ \A k \in 1..Len(tmp_bvh) :
               IsParent(tmp_bvh[k]) =>
                   /\ tmp_bvh[k].child1 = (k - 1) + 1
                   /\ tmp_bvh[k].child2 < Len(tmp_bvh)
                   /\ tmp_bvh[k].child2
                          = tmp_bvh[k].child1 + SubtreeSize(tmp_bvh, tmp_bvh[k].child1 + 1)
                   /\ tmp_bvh[k].child2 + SubtreeSize(tmp_bvh, tmp_bvh[k].child2 + 1)
                          <= Len(tmp_bvh)

\* a tree in which the left subtree of the root has children of its own
C14_Witness ==
    /\ HasBuilt
    /\ IsParent(tmp_bvh[1])
    /\ IsParent(tmp_bvh[2])
    /\ tmp_bvh[1].child2 > 3

\* C15: every parent over k > 7 indices has floor(k / 2) of them below child1
\* and the other k - floor(k / 2) below child2, no triangle below child1 lies
\* after one below child2 on the split axis, and 8 to 14 triangles give one
\* root and two leaves.
C15_MedianSplit ==
    HasBuilt =>
        /\ \A k \in 1..Len(tmp_bvh) :
               IsParent(tmp_bvh[k]) =>
                   With(Cardinality(SubtreeIds(tmp_bvh, k)), LAMBDA n :
                       /\ n > TRIANGLES_PER_LEAF
                       /\ Cardinality(SubtreeIds(tmp_bvh, tmp_bvh[k].child1 + 1)) = n \div 2
                       /\ Cardinality(SubtreeIds(tmp_bvh, tmp_bvh[k].child2 + 1))
                              = n - (n \div 2)
                       /\ SplitAlong(tmp_bvh, k,
                              LongestAxis(<<tmp_bvh[k].bbox_min, tmp_bvh[k].bbox_max>>)))
        /\ (Len(tri_indices) > TRIANGLES_PER_LEAF /\ Len(tri_indices) <= 2 * TRIANGLES_PER_LEAF) =>
               /\ Len(tmp_bvh) = 3
               /\ IsParent(tmp_bvh[1])
               /\ ~IsParent(tmp_bvh[2])
               /\ ~IsParent(tmp_bvh[3])
               /\ tmp_bvh[2].triangle_count + tmp_bvh[3].triangle_count = Len(tri_indices)

\* an odd number of triangles between 8 and 14 was split into unequal halves
C15_Witness ==
    /\ Built
    /\ FiniteScene
    /\ Len(tri_indices) > TRIANGLES_PER_LEAF
    /\ Len(tri_indices) <= 2 * TRIANGLES_PER_LEAF
    /\ Len(tmp_bvh) = 3
    /\ tmp_bvh[2].triangle_count < tmp_bvh[3].triangle_count

\* the coordinates on axis i (1..3) of the vertices of the triangles ids
VertexCoords(ids, i) ==
    UNION {{triangles[id + 1].vertex_0[i], triangles[id + 1].vertex_1[i],
            triangles[id + 1].vertex_2[i]} : id \in ids}

\* the least and the greatest of a set of finite coordinates
Least(coords) == CHOOSE lo \in coords : \A c \in coords : lo <= c

Greatest(coords) == -Least({-c : c \in coords})

\* the range lo..hi of the vertices is less than 1e-4 wide, in f32
Thin(lo, hi) == f32_lt(f32_abs(f32_sub(hi, lo)), DEGENERATE_EPS)

\* C16 as claimed: for finite triangles, on each axis the box of every node
\* is the exact range of the vertices below it when the extent of that range
\* (max - min, in f32) is 1e-4 or more, and that range with 0.01 subtracted
\* from its lower end and added to its upper end (in f32) when it is less;
\* and no box has zero thickness on any axis.
C16_DegenerateGuard ==
    (HasBuilt /\ Len(tri_indices) > 0 /\ FiniteScene) =>
        \A k \in 1..Len(tmp_bvh) : \A i \in 1..3 :
            With(VertexCoords(SubtreeIds(tmp_bvh, k), i), LAMBDA coords :
            With(Least(coords), LAMBDA lo :
            With(Greatest(coords), LAMBDA hi :
                /\ tmp_bvh[k].bbox_min[i] =
                       IF Thin(lo, hi) THEN f32_sub(lo, DEGENERATE_PAD) ELSE lo
                /\ tmp_bvh[k].bbox_max[i] =
                       IF Thin(lo, hi) THEN f32_add(hi, DEGENERATE_PAD) ELSE hi
                /\ tmp_bvh[k].bbox_max[i] > tmp_bvh[k].bbox_min[i])))

\* C17: for a non-empty set of finite triangles, the box of every node holds
\* the three vertices of every triangle listed by a leaf of its subtree.
C17_Enclosure ==
    (HasBuilt /\ Len(tri_indices) > 0 /\ FiniteScene) =>
        \A k \in 1..Len(tmp_bvh) : \A i \in 1..3 :
            \A c \in VertexCoords(SubtreeIds(tmp_bvh, k), i) :
                tmp_bvh[k].bbox_min[i] <= c /\ c <= tmp_bvh[k].bbox_max[i]

\* a tree of three levels or more over finite triangles whose third vertex
\* reaches past the other two
C17_Witness ==
    /\ Built
    /\ FiniteScene
    /\ IsParent(tmp_bvh[1])
    /\ IsParent(tmp_bvh[2])
    /\ \E i \in 1..triangle_count : \E k \in 1..3 :
           /\ triangles[i].vertex_2[k] > triangles[i].vertex_0[k]
           /\ triangles[i].vertex_2[k] > triangles[i].vertex_1[k]

\* the reachable nodes the shader takes for internal ones
ReachableInternal == {k \in Reachable : bvh[k + 1].triangle_count = 0}

\* the children of node k that lie in the bvh array
ChildrenOf(k) == {c \in {bvh[k + 1].child1, bvh[k + 1].child2} : c < BVH_CAPACITY}

\* C18: after a build, on a scene of any number of triangles (zero too), no
\* node with triangle_count = 0 that is reachable from bvh[0] is reached again
\* from its own children.
C18_AcyclicTraversal ==
    Built => \A k \in ReachableInternal : k \notin ReachableFrom(ChildrenOf(k), {})

\* C19: save_render never runs with frame_count = 0.
C19_SaveDivisorPositive == save_divisor # 0

\* C20: no Button event makes the handler index outside button_state.
C20_ButtonTotal == gfx => failure # "index out of bounds"

====
